---- MODULE Spec2Model ----
(***************************************************************************)
(* Fraud detection service: the scoring endpoints of app.py and            *)
(* app_with_database.py, the risk / action / alert policy around the       *)
(* classifier, the categorical encoding of preprocess_transaction and the  *)
(* transaction and alert collections of database/models.py.                *)
(*                                                                         *)
(* Units.  A fraud probability is an integer p in 0..PScale standing for   *)
(* p / PScale.  A percentage rounded to two decimals (round(x * 100, 2))   *)
(* is an integer number of hundredths of a percent, 0..10000.  An optional *)
(* value (Python None) is the empty sequence, a present value x is <<x>>.  *)
(***************************************************************************)
EXTENDS Integers, Sequences, FiniteSets, TLC

\* ---------------------------------------------------------------- bounds
\* Resolution of the probability grid: 0.3, 0.5, 0.6, 0.7 and 0.9 are grid points.
PScale == 300
\* Largest number of transaction records the store holds in a run.
MaxRecords == 2
\* Longest batch sent to the batch endpoint while the store is in use.
GateBatch == 1
\* Longest batch sent to the batch endpoint in the batch-only runs.
MaxBatch == 3
\* How many times in a row one value is encoded in the encoding runs.
MaxCalls == 3
\* The last day of the clock, the first being day 0.
MaxDay == 1

\* ---------------------------------------------------------------- helpers
None == <<>>
Some(x) == <<x>>
IsSome(o) == Len(o) = 1
Get(o) == o[1]

Abs(i) == IF i < 0 THEN -i ELSE i

\* Python round(): to the nearest, ties to even.  n / d rounded to an integer.
RoundHalfEven(n, d) ==
    LET q == n \div d
        r == n % d
    IN  IF 2 * r < d THEN q
        ELSE IF 2 * r > d THEN q + 1
        ELSE IF q % 2 = 0 THEN q ELSE q + 1

\* round(x * 100, 2) for x = n / PScale, in hundredths of a percent.
Round2Pct(n) == RoundHalfEven(n * 10000, PScale)

Probs == 0 .. PScale
Labels == {0, 1}

\* ---------------------------------------------------------------- policy
\* The risk bands with 0.30 itself counted as Low.
App_risk_level_low_inclusive(p) ==
    IF 10 * p <= 3 * PScale THEN "Low"
    ELSE IF 10 * p < 6 * PScale THEN "Medium"
    ELSE "High"

\* app.py, predict_single: risk level.
App_risk_level(p) ==
    IF 10 * p < 3 * PScale THEN "Low"
    ELSE IF 10 * p < 6 * PScale THEN "Medium"
    ELSE "High"

App_risk_color(p) ==
    IF 10 * p < 3 * PScale THEN "green"
    ELSE IF 10 * p < 6 * PScale THEN "yellow"
    ELSE "red"

\* app.py, predict_batch: risk level.
Batch_risk_level(p) ==
    IF 10 * p < 3 * PScale THEN "Low"
    ELSE IF 10 * p < 6 * PScale THEN "Medium"
    ELSE "High"

\* The risk bands with 0.60 itself counted as Medium.
Db_risk_level_medium_inclusive(p) ==
    IF 10 * p < 3 * PScale THEN "Low"
    ELSE IF 10 * p <= 6 * PScale THEN "Medium"
    ELSE "High"

\* app_with_database.py, predict_single: risk level.
Db_risk_level(p) ==
    IF 10 * p < 3 * PScale THEN "Low"
    ELSE IF 10 * p < 6 * PScale THEN "Medium"
    ELSE "High"

\* The action with BLOCK decided by the probability alone.
App_action_block_any_label(prediction, p) ==
    IF 10 * p > 7 * PScale THEN "BLOCK"
    ELSE IF prediction = 1 \/ 10 * p > 5 * PScale THEN "REVIEW"
    ELSE "ALLOW"

\* app.py, predict_single: recommended action.
App_action(prediction, p) ==
    IF prediction = 1 /\ 10 * p > 7 * PScale THEN "BLOCK"
    ELSE IF prediction = 1 \/ 10 * p > 5 * PScale THEN "REVIEW"
    ELSE "ALLOW"

\* app_with_database.py, predict_single: recommended action.
Db_action(prediction, p) ==
    IF prediction = 1 /\ 10 * p > 7 * PScale THEN "BLOCK"
    ELSE IF prediction = 1 \/ 10 * p > 5 * PScale THEN "REVIEW"
    ELSE "ALLOW"

\* prediction_data with the fraud probability stored as the confidence.
App_prediction_data_raw_confidence(prediction, p) ==
    [is_fraud    |-> prediction /= 0,
     probability |-> Round2Pct(p),
     risk_level  |-> App_risk_level(p),
     confidence  |-> Round2Pct(p),
     action      |-> App_action(prediction, p)]

\* app.py, predict_single: the prediction_data handed to FraudTransaction.create.
App_prediction_data(prediction, p) ==
    [is_fraud    |-> prediction /= 0,
     probability |-> Round2Pct(p),
     risk_level  |-> App_risk_level(p),
     confidence  |-> IF prediction = 0 THEN Round2Pct(PScale - p) ELSE Round2Pct(p),
     action      |-> App_action(prediction, p)]

\* app.py, predict_single: the 'prediction' object of the response.
App_response_prediction(prediction, p) ==
    [is_fraud    |-> prediction /= 0,
     fraud_label |-> IF prediction = 1 THEN "FRAUD DETECTED" ELSE "LEGITIMATE",
     probability |-> Round2Pct(p),
     risk_level  |-> App_risk_level(p),
     risk_color  |-> App_risk_color(p),
     confidence  |-> IF prediction = 0 THEN Round2Pct(PScale - p) ELSE Round2Pct(p)]

\* app_with_database.py, predict_single: prediction_data.
Db_prediction_data(prediction, p) ==
    [is_fraud    |-> prediction /= 0,
     probability |-> Round2Pct(p),
     risk_level  |-> Db_risk_level(p),
     confidence  |-> IF prediction = 0 THEN Round2Pct(PScale - p) ELSE Round2Pct(p),
     action      |-> Db_action(prediction, p)]

\* app_with_database.py, predict_single: the 'prediction' object of the response,
\* read back from prediction_data.  It has no risk_color.
Db_response_prediction(prediction, p) ==
    LET pd == Db_prediction_data(prediction, p)
    IN  [is_fraud    |-> prediction /= 0,
         fraud_label |-> IF prediction = 1 THEN "FRAUD DETECTED" ELSE "LEGITIMATE",
         probability |-> pd.probability,
         risk_level  |-> Db_risk_level(p),
         risk_color  |-> "",
         confidence  |-> pd.confidence]

\* ---------------------------------------------------------------- raw input
\* The 19 keys predict_single of app.py requires.
required_fields ==
    {"TransactionAmount", "TransactionDate", "TransactionType", "Location",
     "Channel", "CustomerAge", "CustomerOccupation", "TransactionDuration",
     "LoginAttempts", "AccountBalance", "PreviousTransactionDate",
     "Sender Country", "Receiver Country", "Sender Currency",
     "Receiver Currency", "Account Status", "Invalid Pin Status",
     "Invalid pin retry limits", "Invalid pin retry count"}

\* The columns preprocess_transaction encodes when they are present.
categorical_cols ==
    {"TransactionType", "Location", "Channel", "CustomerOccupation",
     "Sender Country", "Receiver Country", "Sender Currency",
     "Receiver Currency", "Account Status", "Invalid Pin Status"}

features_to_drop == {"TransactionDate", "PreviousTransactionDate"}

\* The columns preprocess_transaction reads as df[...]: a missing one is a KeyError.
indexed_cols ==
    {"TransactionDate", "PreviousTransactionDate", "TransactionAmount",
     "AccountBalance", "Sender Country", "Receiver Country",
     "Sender Currency", "Receiver Currency"}

\* The columns preprocess_transaction adds.
derived_cols ==
    {"Hour", "DayOfWeek", "Month", "IsWeekend", "IsNightTime",
     "HoursSincePrevTransaction", "AmountToBalanceRatio", "IsCrossBorder",
     "IsCurrencyMismatch"}

\* The columns the scaler was fitted on (scaler.n_features_in_ of them).
FittedColumns == (required_fields \ features_to_drop) \cup derived_cols

\* Probabilities the classifier returns in the runs that use the store: 0 and the
\* grid points at and just above the alert thresholds 0.7 and 0.9.
ServiceProbs ==
    {p \in Probs : p = 0 \/ \E t \in {7, 9} : 10 * p - t * PScale \in 0 .. 10}

\* A request body as request.get_json() returns it.  kind: "empty" (falsy: no
\* body, {} or []), "scalar" (a JSON number or true), "list" (a non-empty
\* array), "dict".  keys: the keys of a dict.  prediction, p: what the loaded
\* classifier answers for the feature vector of this transaction.
Body(kind, keys, prediction, p) ==
    [kind |-> kind, keys |-> keys, prediction |-> prediction, p |-> p]

IncompleteBodies ==
    {Body("dict", required_fields \ {f}, 0, 0) : f \in required_fields}

CompleteBodies(probs) ==
    {Body("dict", required_fields, l, p) : l \in Labels, p \in probs}

Bodies ==
    {Body(k, {}, 0, 0) : k \in {"empty", "scalar", "list"}}
        \cup IncompleteBodies \cup CompleteBodies(ServiceProbs)

\* Messages of the exceptions the store's driver raises.
ErrMsgs == {"ServerSelectionTimeoutError", "AutoReconnect"}
WriteErrors == {None} \cup {Some(e) : e \in ErrMsgs}

\* ---------------------------------------------------------------- encoding
\* A JSON value of a categorical field: a string, a number or null.
Str(v) == [t |-> "str", v |-> v]
Num(v) == [t |-> "num", v |-> v]
Null == [t |-> "null", v |-> ""]

Range(f) == {f[i] : i \in DOMAIN f}

\* The encoder registry as label_encoders.joblib holds it: per categorical
\* column the classes_ of its LabelEncoder, sorted, the code of a class being
\* its position counted from 0.
label_encoders ==
    [col \in categorical_cols |->
        CASE col = "TransactionType" -> <<"Deposit", "Transfer", "Withdrawal">>
          [] col = "Location" -> <<"Chicago", "New York">>
          [] col = "Channel" -> <<"ATM", "Online">>
          [] col = "CustomerOccupation" -> <<"Engineer", "Student", "Teacher">>
          [] col \in {"Sender Country", "Receiver Country"} -> <<"Germany", "USA">>
          [] col \in {"Sender Currency", "Receiver Currency"} -> <<"EUR", "USD">>
          [] col = "Account Status" -> <<"Active", "Flagged">>
          [] OTHER -> <<"Invalid", "Locked", "Valid">>]

\* The values a request may carry in a categorical field: each known class, a
\* class in another case, an unseen string, the empty string, a number, null.
FieldValues(classes) ==
    {Str(c) : c \in Range(classes)}
        \cup {Str("unknown"), Str(""), Str("atm"), Num("7"), Null}

\* The substitution with the last class as the fallback.
substitute_last(classes, x) ==
    IF x.t = "str" /\ x.v \in Range(classes) THEN x ELSE Str(classes[Len(classes)])

\* lambda x: x if x in known_classes else le_dict[col].classes_[0]
substitute_unseen(classes, x) ==
    IF x.t = "str" /\ x.v \in Range(classes) THEN x ELSE Str(classes[1])

\* df[col].astype(str)
astype_str(x) == IF x.t = "null" THEN "None" ELSE x.v

\* LabelEncoder.transform: the position of the label in classes_, or a
\* ValueError for a label that is not in classes_.
Encoded(error, code) == [error |-> error, code |-> code]

transform(classes, label) ==
    IF label \in Range(classes)
    THEN Encoded("", Some((CHOOSE i \in DOMAIN classes : classes[i] = label) - 1))
    ELSE Encoded("ValueError", None)

\* app.py, preprocess_transaction: the body of the loop over categorical_cols.
App_encode(le, col, x) ==
    transform(le[col], astype_str(substitute_unseen(le[col], x)))

\* app_with_database.py, preprocess_transaction: the same loop body.
Db_encode(le, col, x) ==
    transform(le[col], astype_str(substitute_unseen(le[col], x)))

\* The artifacts load_models may find on disk.  scaler.joblib: a scaler fitted
\* on the columns preprocess_transaction makes of a complete transaction, or one
\* fitted on a frame that had one more column.  label_encoders.joblib: the
\* registry of all ten columns, or one that lacks the encoder of Channel.
ScalerArtifacts == {FittedColumns, FittedColumns \cup {"TransactionID"}}

EncoderArtifacts ==
    {label_encoders,
     [col \in categorical_cols \ {"Channel"} |-> label_encoders[col]]}

\* ---------------------------------------------------------------- preprocessing
\* preprocess_transaction, as far as the columns go: the exception it raises
\* ("" when it returns) and the columns of the frame it returns.
\* le: the encoder registry global ('col in le_dict' of None is a TypeError).
preprocess_error(le, body) ==
    IF body.kind = "scalar" THEN "AttributeError"
    ELSE IF body.kind \in {"list", "empty"} THEN "TypeError"
    ELSE IF ~(indexed_cols \subseteq body.keys) THEN "KeyError"
    ELSE IF le = None THEN "TypeError"
    ELSE ""

preprocess_columns(body) == (body.keys \ features_to_drop) \cup derived_cols

\* The categorical columns preprocess_transaction leaves as strings: those of
\* the frame that have no encoder in the registry ('col in le_dict' is false).
unencoded_columns(le, body) == (categorical_cols \cap body.keys) \ DOMAIN Get(le)

\* scaler.transform(processed): a frame whose columns are not the fitted ones,
\* or that still holds a string column, is a ValueError (and None has no
\* transform).  sc: the scaler global.
scaler_transform_error(sc, columns, strings) ==
    IF sc = None THEN "AttributeError"
    ELSE IF columns = Get(sc) /\ strings = {} THEN "" ELSE "ValueError"

\* preprocess_transaction then scaler.transform: the exception raised, "" if none.
score_error(le, sc, body) ==
    IF preprocess_error(le, body) /= "" THEN preprocess_error(le, body)
    ELSE scaler_transform_error(sc, preprocess_columns(body),
                                unencoded_columns(le, body))

\* The steps of scoring that were entered, in order.
score_steps(le, sc, body) ==
    IF preprocess_error(le, body) /= "" THEN <<"preprocess">>
    ELSE IF score_error(le, sc, body) /= ""
         THEN <<"preprocess", "scale">>
         ELSE <<"preprocess", "scale", "predict">>

\* ---------------------------------------------------------------- features
\* The hours preprocess_transaction substitutes when no delta can be computed.
median_default == 168

\* A raw timestamp: Ts(h) is a string in the format %d/%m/%Y %H:%M that names
\* the hour h of the model's calendar; BadTs is any other value (another format,
\* a number, null).
Ts(h) == [ok |-> TRUE, at |-> h]
BadTs == [ok |-> FALSE, at |-> 0]

\* pd.to_datetime(..., format='%d/%m/%Y %H:%M', errors='coerce'): NaT (None) for
\* what does not parse.
to_datetime(ts) == IF ts.ok THEN Some(ts.at) ELSE None

\* A raw transaction as the feature code sees it: its keys in the order of the
\* JSON object, its two timestamps and its CustomerAge (None: JSON null).
Row(keys, date, prev, age) ==
    [keys |-> keys, date |-> date, prev |-> prev, age |-> age]

\* The calendar of the model: hour 0 is Monday 01/01/2024 00:00, and a parsed
\* timestamp is the number of whole hours since then, within the year 2024.
days_in_month == <<31, 29, 31, 30, 31, 30, 31, 31, 30, 31, 30, 31>>

RECURSIVE days_before(_)
days_before(m) == IF m = 1 THEN 0 ELSE days_before(m - 1) + days_in_month[m - 1]

\* Series.dt.hour, .dt.dayofweek (Monday is 0) and .dt.month: None (NaN) of NaT.
dt_hour(t) == IF t = None THEN None ELSE Some(Get(t) % 24)

dt_dayofweek(t) == IF t = None THEN None ELSE Some((Get(t) \div 24) % 7)

dt_month(t) ==
    IF t = None THEN None
    ELSE Some(CHOOSE m \in 1 .. 12 :
                 /\ days_before(m) <= Get(t) \div 24
                 /\ Get(t) \div 24 < days_before(m) + days_in_month[m])

\* (df['DayOfWeek'] >= 5).astype(int): a comparison with NaN is False.
IsWeekend_weekdays_only(DayOfWeek) ==
    IF IsSome(DayOfWeek) /\ Get(DayOfWeek) > 5 THEN 1 ELSE 0

IsWeekend(DayOfWeek) ==
    IF IsSome(DayOfWeek) /\ Get(DayOfWeek) >= 5 THEN 1 ELSE 0

\* ((df['Hour'] >= 22) | (df['Hour'] <= 6)).astype(int)
IsNightTime_of_filled_hour(Hour) ==
    IF Hour = None \/ Get(Hour) >= 22 \/ Get(Hour) <= 6 THEN 1 ELSE 0

IsNightTime(Hour) ==
    IF IsSome(Hour) /\ (Get(Hour) >= 22 \/ Get(Hour) <= 6) THEN 1 ELSE 0

\* Series.fillna(value): the cell, value where it is null.
fillna_kept(cell, value) == cell

fillna(cell, value) == IF cell = None THEN Some(value) ELSE cell

\* (TransactionDate - PreviousTransactionDate).dt.total_seconds() / 3600, counted
\* in half hours; None (NaN) when one of the two is NaT.
hours_since_prev_reversed(row) ==
    IF to_datetime(row.date) = None \/ to_datetime(row.prev) = None THEN None
    ELSE Some(2 * (Get(to_datetime(row.prev)) - Get(to_datetime(row.date))))

hours_since_prev(row) ==
    IF to_datetime(row.date) = None \/ to_datetime(row.prev) = None THEN None
    ELSE Some(2 * (Get(to_datetime(row.date)) - Get(to_datetime(row.prev))))

\* The k-th smallest of the values of a sequence.
kth_smallest(v, k) ==
    CHOOSE x \in Range(v) :
        /\ Cardinality({i \in DOMAIN v : v[i] < x}) < k
        /\ Cardinality({i \in DOMAIN v : v[i] <= x}) >= k

\* Series.median() of a non-empty sequence of half-hour counts (all even, so the
\* mean of the two middle values is a whole number of half hours).
median(v) ==
    LET n == Len(v)
    IN  IF n % 2 = 1 THEN kth_smallest(v, (n + 1) \div 2)
        ELSE (kth_smallest(v, n \div 2) + kth_smallest(v, n \div 2 + 1)) \div 2

\* The columns preprocess_transaction assigns, in the order it assigns them.
derived_order ==
    <<"Hour", "DayOfWeek", "Month", "IsWeekend", "IsNightTime",
      "HoursSincePrevTransaction", "AmountToBalanceRatio", "IsCrossBorder",
      "IsCurrencyMismatch">>

\* The keys of a transaction in the order the documentation gives them.
documented_order ==
    <<"TransactionAmount", "TransactionDate", "TransactionType", "Location",
      "Channel", "CustomerAge", "CustomerOccupation", "TransactionDuration",
      "LoginAttempts", "AccountBalance", "PreviousTransactionDate",
      "Sender Country", "Receiver Country", "Sender Currency",
      "Receiver Currency", "Account Status", "Invalid Pin Status",
      "Invalid pin retry limits", "Invalid pin retry count">>

\* The columns of the frame preprocess_transaction returns, in order: those of
\* DataFrame([data]) in the order of the keys, each new column appended when it
\* is first assigned, the two date columns dropped.
column_order(keys) ==
    LET new(c) == c \notin Range(keys)
        kept(c) == c \notin features_to_drop
    IN  SelectSeq(keys \o SelectSeq(derived_order, new), kept)

\* The column order the scaler was fitted on: the frame of a transaction whose
\* keys come in the documented order.
FittedOrder == column_order(documented_order)

\* preprocess_transaction, as far as the hours go: HoursSincePrevTransaction of
\* every row of the frame, the missing ones filled with the median of the frame
\* or, when the frame has none, with 168.
preprocess_hours(rows) ==
    LET at == {i \in DOMAIN rows : hours_since_prev(rows[i]) /= None}
        present == SelectSeq([i \in DOMAIN rows |-> hours_since_prev(rows[i])], IsSome)
        median_hours == IF at = {} THEN 2 * median_default
                        ELSE median([i \in DOMAIN present |-> Get(present[i])])
    IN  [i \in DOMAIN rows |->
            IF i \in at THEN Get(hours_since_prev(rows[i])) ELSE median_hours]

\* The cells of the one row of the frame preprocess_transaction returns, for the
\* time columns and CustomerAge: each as assigned, then df.fillna(0).
preprocess_cells(row) ==
    LET t == to_datetime(row.date)
        assigned ==
            [Hour        |-> dt_hour(t),
             DayOfWeek   |-> dt_dayofweek(t),
             Month       |-> dt_month(t),
             IsWeekend   |-> Some(IsWeekend(dt_dayofweek(t))),
             IsNightTime |-> Some(IsNightTime(dt_hour(t))),
             HoursSincePrevTransaction |-> Some(preprocess_hours(<<row>>)[1]),
             CustomerAge |-> row.age]
    IN  [col \in DOMAIN assigned |-> fillna(assigned[col], 0)]

\* preprocess_transaction(transaction) of the i-th item of a list: the item is
\* a dict, the frame is DataFrame([data]), one row.  strings: the categorical
\* columns the loop over categorical_cols left as they came.
preprocess_frame(le, rows, i) ==
    [columns |-> column_order(rows[i].keys),
     hours   |-> preprocess_hours(<<rows[i]>>)[1],
     cells   |-> preprocess_cells(rows[i]),
     strings |-> unencoded_columns(le, [keys |-> Range(rows[i].keys)])]

\* ---------------------------------------------------------------- state
VARIABLES
    app,                 \* the program that runs: "app" or "app_with_database"
    pc,                  \* "boot", "load_failed", "loaded", "serving", "exited"
    model,               \* the classifier global: None or Some("model")
    scaler,              \* the scaler global: None or Some(fitted columns)
    le_dict,             \* the encoder registry global: None or Some(registry)
    db_connected,        \* the db_connected global
    DATABASE_AVAILABLE,  \* app.py: the database package was importable
    transactions,        \* the transactions collection, in insertion order
    alerts,              \* the fraud_alerts collection, in insertion order
    req,                 \* the body of the request being answered (None: none)
    resp,                \* the HTTP response to it
    trace,               \* the steps its handler entered, in order
    pol,                 \* policy runs: a classifier output and what a site made of it
    enc,                 \* encoding runs: a value and what the encoder made of it
    memo,                \* repeat runs: an earlier request and the score it got (None: none)
    feat,                \* feature runs: a request and the frame handed to the scaler
    today,               \* the day of the clock, counted from the day of the start
    inflight             \* threaded runs: the locals of each request-handling thread

vars == <<app, pc, model, scaler, le_dict, db_connected, DATABASE_AVAILABLE,
          transactions, alerts, req, resp, trace, pol, enc, memo, feat, today,
          inflight>>

globals == <<model, scaler, le_dict, db_connected, DATABASE_AVAILABLE>>
store == <<transactions, alerts>>

Apps == {"app", "app_with_database"}

\* A response: its status code and the fields of its JSON body the model keeps.
NoResp ==
    [endpoint |-> "", code |-> 0, error |-> "", message |-> "",
     missing_fields |-> {}, success |-> FALSE,
     transaction_id |-> None, alert_id |-> None,
     database_save_status |-> None, saved_to_database |-> None,
     prediction |-> None, action |-> None,
     results |-> <<>>, summary |-> None, health |-> None, count |-> None]

NoPol == [site |-> "", prediction |-> 0, p |-> 0, risk_level |-> "",
          action |-> "", confidence |-> 0, probability |-> 0]

NoEnc == [col |-> "", value |-> Null, results |-> <<>>]

NoFeat == [site |-> "", request |-> <<>>, frames |-> <<>>]

\* The threads of the server that handle requests, and a thread that handles
\* none: where it is in predict_single ("idle", "scored", "alert", "respond",
\* "done"), its request, its locals and its response.
Threads == {"t1", "t2"}

Idle ==
    [at |-> "idle", body |-> None, transaction_id |-> None, alert_id |-> None,
     db_save_status |-> <<"not_attempted">>, resp |-> NoResp]

ServiceInit ==
    /\ app \in Apps
    /\ pc = "boot"
    /\ model = None /\ scaler = None /\ le_dict = None
    /\ db_connected = FALSE
    /\ DATABASE_AVAILABLE \in (IF app = "app" THEN BOOLEAN ELSE {TRUE})
    /\ transactions = <<>> /\ alerts = <<>>
    /\ req = None
    /\ resp = NoResp
    /\ trace = <<>>
    /\ today = 0
    /\ inflight = [t \in Threads |-> Idle]

Init == ServiceInit /\ pol = NoPol /\ enc = NoEnc /\ memo = None /\ feat = NoFeat

\* ---------------------------------------------------------------- startup
\* load_models: the three artifacts are loaded in order; the first failure
\* leaves the later globals None.  n: how many load before one fails (3: all);
\* sc, le: what scaler.joblib and label_encoders.joblib hold.
load_models(n, sc, le) ==
    /\ pc = "boot"
    /\ model' = IF n >= 1 THEN Some("model") ELSE None
    /\ scaler' = IF n >= 2 THEN Some(sc) ELSE None
    /\ le_dict' = IF n >= 3 THEN Some(le) ELSE None
    /\ pc' = IF n = 3 THEN "loaded" ELSE "load_failed"
    /\ UNCHANGED <<app, db_connected, DATABASE_AVAILABLE, store, req, resp, trace, pol, enc, memo, feat, today, inflight>>

\* __main__: load_models() returned False: exit(1).
main_exit ==
    /\ pc = "load_failed"
    /\ pc' = "exited"
    /\ UNCHANGED <<app, globals, store, req, resp, trace, pol, enc, memo, feat, today, inflight>>

\* init_database: db_connected becomes what initialize_database() returns;
\* app.py returns early when the database package is missing.
init_database(connected) ==
    /\ pc = "loaded"
    /\ db_connected' = IF DATABASE_AVAILABLE THEN connected ELSE db_connected
    /\ pc' = "serving"
    /\ UNCHANGED <<app, model, scaler, le_dict, DATABASE_AVAILABLE, store, req,
                   resp, trace, pol, enc, memo, feat, today, inflight>>

\* The module is imported and its routes are served by a host that does not run
\* the __main__ block (whatever load_models() did, if it was called at all).
serve_imported ==
    /\ pc \in {"boot", "load_failed", "loaded"}
    /\ pc' = "serving"
    /\ UNCHANGED <<app, globals, store, req, resp, trace, pol, enc, memo, feat, today, inflight>>

\* ---------------------------------------------------------------- persistence
\* FraudTransaction.create: the document inserted.
FraudTransaction_create(id, transaction_data, prediction_data) ==
    [id                 |-> id,
     is_fraud           |-> prediction_data.is_fraud,
     fraud_probability  |-> prediction_data.probability,
     risk_level         |-> prediction_data.risk_level,
     confidence         |-> prediction_data.confidence,
     action_recommended |-> prediction_data.action,
     created_at         |-> today,
     reviewed           |-> FALSE,
     review_notes       |-> None]

\* FraudAlert.create: the document inserted.
FraudAlert_create(id, transaction_id, alert_data) ==
    [id                 |-> id,
     transaction_id     |-> transaction_id,
     severity           |-> alert_data.severity,
     fraud_probability  |-> alert_data.fraud_probability,
     risk_level         |-> alert_data.risk_level,
     recommended_action |-> alert_data.recommended_action,
     status             |-> "pending",
     reviewed           |-> FALSE]

\* The alert condition without the label.
App_alert_due_any_label(prediction, p) == 10 * p > 7 * PScale

\* The alert condition reaching down to 0.7 itself.
App_alert_due_from_070(prediction, p) == prediction = 1 /\ 10 * p >= 7 * PScale

\* predict_single: the condition under which an alert is created.
App_alert_due(prediction, p) == prediction = 1 /\ 10 * p > 7 * PScale

Db_alert_due(prediction, p) == prediction = 1 /\ 10 * p > 7 * PScale

\* predict_single: alert_data.  fraud_probability is the raw probability.
App_alert_data(p, risk_level, action) ==
    [severity           |-> IF 10 * p > 9 * PScale THEN "critical" ELSE "high",
     fraud_probability  |-> p,
     risk_level         |-> risk_level,
     recommended_action |-> action]

Db_alert_data(p, risk_level, action) ==
    [severity           |-> IF 10 * p > 9 * PScale THEN "critical" ELSE "high",
     fraud_probability  |-> p,
     risk_level         |-> risk_level,
     recommended_action |-> action]

\* The 'try' block that saves the transaction and, when due, its alert.
\* txErr, alErr: the exception each write raises, None when it succeeds.
\* The result: the ids, the new collections and the steps entered.
SaveResult(tid, aid, failed, txs, als, steps) ==
    [transaction_id |-> tid, alert_id |-> aid, failed |-> failed,
     txs |-> txs, als |-> als, steps |-> steps]

\* The block with the alert written first, for the id the transaction is about
\* to get, whether or not the transaction write then succeeds.
save_block_alert_first(data, prediction_data, due, alert_data, txErr, alErr) ==
    LET tid == Len(transactions) + 1
        aid == Len(alerts) + 1
        wrote == due /\ ~IsSome(alErr)
        als == IF wrote THEN Append(alerts, FraudAlert_create(aid, tid, alert_data))
               ELSE alerts
        first == IF due THEN <<"alert_write">> ELSE <<>>
    IN  IF due /\ IsSome(alErr)
        THEN SaveResult(None, None, alErr, transactions, alerts,
                        <<"alert_write", "alert_write_raised">>)
        ELSE IF IsSome(txErr)
        THEN SaveResult(None, IF wrote THEN Some(aid) ELSE None, txErr,
                        transactions, als, first \o <<"tx_write", "tx_write_raised">>)
        ELSE SaveResult(Some(tid), IF wrote THEN Some(aid) ELSE None, None,
                        Append(transactions,
                               FraudTransaction_create(tid, data, prediction_data)),
                        als, first \o <<"tx_write">>)

save_block(data, prediction_data, due, alert_data, txErr, alErr) ==
    IF IsSome(txErr)
    THEN SaveResult(None, None, txErr, transactions, alerts,
                    <<"tx_write", "tx_write_raised">>)
    ELSE LET tid == Len(transactions) + 1
             txs == Append(transactions,
                           FraudTransaction_create(tid, data, prediction_data))
         IN  IF ~due
             THEN SaveResult(Some(tid), None, None, txs, alerts, <<"tx_write">>)
             ELSE IF IsSome(alErr)
             THEN SaveResult(Some(tid), None, alErr, txs, alerts,
                             <<"tx_write", "alert_write", "alert_write_raised">>)
             ELSE LET aid == Len(alerts) + 1
                  IN  SaveResult(Some(tid), Some(aid), None, txs,
                                 Append(alerts, FraudAlert_create(aid, tid, alert_data)),
                                 <<"tx_write", "alert_write">>)

\* ---------------------------------------------------------------- review and housekeeping
\* The statuses a client sends to update_alert: the four the alert document
\* names, and a string that is none of them.
Statuses == {"pending", "investigating", "resolved", "false_positive", "closed"}

\* FraudAlert.update_alert_status: update_one with $set on the alert of that
\* id; no alert of that id, no change.
FraudAlert_update_alert_status(als, alert_id, status) ==
    [i \in DOMAIN als |->
        IF als[i].id = alert_id
        THEN [als[i] EXCEPT !.status = status, !.reviewed = TRUE]
        ELSE als[i]]

\* app_with_database.py: update_alert.  has_json: the request has a JSON body.
update_alert(alert_id, has_json, status) ==
    /\ pc = "serving" /\ app = "app_with_database"
    /\ resp = NoResp
    /\ req' = None
    /\ trace' = <<>>
    /\ IF ~db_connected
       THEN /\ resp' = [NoResp EXCEPT !.endpoint = "update_alert", !.code = 503,
                                      !.error = "Database not connected"]
            /\ UNCHANGED alerts
       ELSE IF ~has_json
       THEN /\ resp' = [NoResp EXCEPT !.endpoint = "update_alert", !.code = 500,
                                      !.error = "AttributeError"]
            /\ UNCHANGED alerts
       ELSE /\ resp' = [NoResp EXCEPT !.endpoint = "update_alert", !.code = 200,
                                      !.success = TRUE]
            /\ alerts' = FraudAlert_update_alert_status(alerts, alert_id, status)
    /\ UNCHANGED <<app, pc, globals, transactions, pol, enc, memo, feat, today, inflight>>

\* FraudTransaction.update_review_status: update_one with $set on the record of
\* that id.
FraudTransaction_update_review_status(transaction_id, reviewed, notes) ==
    /\ pc = "serving" /\ db_connected
    /\ resp = NoResp
    /\ transactions' =
          [i \in DOMAIN transactions |->
              IF transactions[i].id = transaction_id
              THEN [transactions[i] EXCEPT !.reviewed = reviewed,
                                           !.review_notes = notes]
              ELSE transactions[i]]
    /\ req' = None
    /\ resp' = [NoResp EXCEPT !.endpoint = "update_review_status"]
    /\ trace' = <<>>
    /\ UNCHANGED <<app, pc, globals, alerts, pol, enc, memo, feat, today, inflight>>

\* The collection with its oldest records taken out.
archived_removed(txs, old) == SubSeq(txs, old + 1, Len(txs))

\* DataCleanup.archive_old_transactions: the transactions collection after the
\* call.  old: how many records are older than the cutoff.  It only counts them.
archived(txs, old) == txs

\* DataCleanup.archive_old_transactions: the count is printed and returned.
archive_old_transactions(old) ==
    /\ pc = "serving" /\ db_connected
    /\ resp = NoResp
    /\ old \in 0 .. Len(transactions)
    /\ transactions' = archived(transactions, old)
    /\ req' = None
    /\ resp' = [NoResp EXCEPT !.endpoint = "archive_old_transactions",
                              !.count = Some(old)]
    /\ trace' = <<>>
    /\ UNCHANGED <<app, pc, globals, alerts, pol, enc, memo, feat, today, inflight>>

\* ---------------------------------------------------------------- GET /api/health
\* app.py: health_check.  The status is the literal 'healthy'; the flags say
\* which globals are set.
health_check ==
    /\ pc = "serving" /\ app = "app"
    /\ resp = NoResp
    /\ req' = None
    /\ resp' = [NoResp EXCEPT
                   !.endpoint = "health", !.code = 200,
                   !.health = Some([status             |-> "healthy",
                                    model_loaded       |-> model /= None,
                                    scaler_loaded      |-> scaler /= None,
                                    encoders_loaded    |-> le_dict /= None,
                                    database_connected |-> db_connected,
                                    database_available |-> DATABASE_AVAILABLE])]
    /\ trace' = <<>>
    /\ UNCHANGED <<app, pc, globals, store, pol, enc, memo, feat, today, inflight>>

\* ---------------------------------------------------------------- POST /api/predict
\* What a handler did: its response, the steps it entered, the collections after.
Handled(r, steps, txs, als) == [resp |-> r, trace |-> steps, txs |-> txs, als |-> als]

Refused(endpoint, code, error) ==
    Handled([NoResp EXCEPT !.endpoint = endpoint, !.code = code, !.error = error],
            <<>>, transactions, alerts)

\* The 'except Exception' of a handler: 500 with the exception's message.
Failed500(endpoint, error, message, steps) ==
    Handled([NoResp EXCEPT !.endpoint = endpoint, !.code = 500, !.error = error,
                           !.message = message],
            steps, transactions, alerts)

\* The guard with only the classifier looked at.
models_loaded_model_only == model /= None

\* The guard at the top of the scoring handlers.
models_loaded == model /= None /\ scaler /= None /\ le_dict /= None

\* app.py: the required fields a body lacks ('field not in data').
App_missing_fields(body) == required_fields \ body.keys

\* The same part with the action raised to REVIEW once the store holds a fraud
\* record: a score that depends on earlier requests.
App_saved_by_history(body, prediction, p, txErr, alErr) ==
    LET risk == App_risk_level(p)
        prior == \E i \in DOMAIN transactions : transactions[i].is_fraud
        action == IF prior /\ App_action(prediction, p) = "ALLOW" THEN "REVIEW"
                  ELSE App_action(prediction, p)
        pd == [App_prediction_data(prediction, p) EXCEPT !.action = action]
        attempted == db_connected /\ DATABASE_AVAILABLE
        sv == IF attempted
              THEN save_block(body, pd, App_alert_due(prediction, p),
                              App_alert_data(p, risk, action), txErr, alErr)
              ELSE SaveResult(None, None, None, transactions, alerts, <<>>)
        status == IF ~attempted THEN <<"not_attempted">>
                  ELSE IF IsSome(sv.failed) THEN <<"failed", Get(sv.failed)>>
                  ELSE <<"success">>
    IN  Handled([NoResp EXCEPT
                    !.endpoint = "predict", !.code = 200, !.success = TRUE,
                    !.transaction_id = sv.transaction_id,
                    !.alert_id = sv.alert_id,
                    !.database_save_status = Some(status),
                    !.prediction = Some(App_response_prediction(prediction, p)),
                    !.action = Some(action)],
                <<"preprocess", "scale", "predict">> \o sv.steps, sv.txs, sv.als)

\* app.py: the database part of predict_single and the response it leads to.
App_saved(body, prediction, p, txErr, alErr) ==
    LET risk == App_risk_level(p)
        action == App_action(prediction, p)
        pd == App_prediction_data(prediction, p)
        attempted == db_connected /\ DATABASE_AVAILABLE
        sv == IF attempted
              THEN save_block(body, pd, App_alert_due(prediction, p),
                              App_alert_data(p, risk, action), txErr, alErr)
              ELSE SaveResult(None, None, None, transactions, alerts, <<>>)
        status == IF ~attempted THEN <<"not_attempted">>
                  ELSE IF IsSome(sv.failed) THEN <<"failed", Get(sv.failed)>>
                  ELSE <<"success">>
    IN  Handled([NoResp EXCEPT
                    !.endpoint = "predict", !.code = 200, !.success = TRUE,
                    !.transaction_id = sv.transaction_id,
                    !.alert_id = sv.alert_id,
                    !.database_save_status = Some(status),
                    !.prediction = Some(App_response_prediction(prediction, p)),
                    !.action = Some(action)],
                <<"preprocess", "scale", "predict">> \o sv.steps, sv.txs, sv.als)

\* app.py: predict_single.
App_handle(body, txErr, alErr) ==
    IF ~models_loaded THEN Refused("predict", 503, "Models not loaded")
    ELSE IF body.kind = "empty" THEN Refused("predict", 400, "No data provided")
    ELSE IF body.kind = "scalar"
         THEN Failed500("predict", "Prediction failed", "TypeError", <<>>)
    ELSE IF App_missing_fields(body) /= {}
         THEN Handled([NoResp EXCEPT !.endpoint = "predict", !.code = 400,
                                     !.error = "Missing required fields",
                                     !.missing_fields = App_missing_fields(body)],
                      <<>>, transactions, alerts)
    ELSE IF score_error(le_dict, scaler, body) /= ""
         THEN Failed500("predict", "Prediction failed", score_error(le_dict, scaler, body),
                        score_steps(le_dict, scaler, body))
    ELSE App_saved(body, body.prediction, body.p, txErr, alErr)

\* app_with_database.py: the database part of predict_single and its response.
Db_saved(body, prediction, p, txErr, alErr) ==
    LET risk == Db_risk_level(p)
        action == Db_action(prediction, p)
        pd == Db_prediction_data(prediction, p)
        sv == IF db_connected
              THEN save_block(body, pd, Db_alert_due(prediction, p),
                              Db_alert_data(p, risk, action), txErr, alErr)
              ELSE SaveResult(None, None, None, transactions, alerts, <<>>)
    IN  Handled([NoResp EXCEPT
                    !.endpoint = "predict", !.code = 200, !.success = TRUE,
                    !.transaction_id = sv.transaction_id,
                    !.alert_id = sv.alert_id,
                    !.saved_to_database = Some(db_connected),
                    !.prediction = Some(Db_response_prediction(prediction, p)),
                    !.action = Some(action)],
                <<"preprocess", "scale", "predict">> \o sv.steps, sv.txs, sv.als)

\* app_with_database.py: predict_single.  It has no required-fields check.
Db_handle(body, txErr, alErr) ==
    IF ~models_loaded THEN Refused("predict", 503, "Models not loaded")
    ELSE IF body.kind = "empty" THEN Refused("predict", 400, "No data provided")
    ELSE IF score_error(le_dict, scaler, body) /= ""
         THEN Failed500("predict", "Prediction failed", score_error(le_dict, scaler, body),
                        score_steps(le_dict, scaler, body))
    ELSE Db_saved(body, body.prediction, body.p, txErr, alErr)

\* A handler's outcome becomes the state.  Requests are taken one at a time: the
\* next one is handled once the response of the last one has been returned.
Apply(body, h) ==
    /\ resp = NoResp
    /\ Len(h.txs) <= MaxRecords
    /\ req' = Some(body)
    /\ resp' = h.resp
    /\ trace' = h.trace
    /\ transactions' = h.txs
    /\ alerts' = h.als
    /\ UNCHANGED <<app, pc, globals, pol, enc, feat, today, inflight>>

App_predict_single(body, txErr, alErr) ==
    /\ pc = "serving" /\ app = "app"
    /\ Apply(body, App_handle(body, txErr, alErr))
    /\ UNCHANGED memo

Db_predict_single(body, txErr, alErr) ==
    /\ pc = "serving" /\ app = "app_with_database"
    /\ Apply(body, Db_handle(body, txErr, alErr))
    /\ UNCHANGED memo

\* What a 200 response of predict_single says of the transaction: label,
\* probability, risk level, action and confidence.
Score(r) ==
    LET pr == Get(r.prediction)
    IN  <<pr.is_fraud, pr.probability, pr.risk_level, Get(r.action), pr.confidence>>

\* predict_single answering a request that gets scored, with the request and its
\* score kept for comparison with later answers.
App_predict_single_noted(body, txErr, alErr) ==
    /\ pc = "serving" /\ app = "app"
    /\ memo = None
    /\ LET h == App_handle(body, txErr, alErr)
       IN  /\ h.resp.code = 200
           /\ Apply(body, h)
           /\ memo' = Some([body |-> body, score |-> Score(h.resp)])

Db_predict_single_noted(body, txErr, alErr) ==
    /\ pc = "serving" /\ app = "app_with_database"
    /\ memo = None
    /\ LET h == Db_handle(body, txErr, alErr)
       IN  /\ h.resp.code = 200
           /\ Apply(body, h)
           /\ memo' = Some([body |-> body, score |-> Score(h.resp)])

\* 'return jsonify(...), code': the response leaves the handler.
return_response ==
    /\ resp /= NoResp
    /\ req' = None
    /\ resp' = NoResp
    /\ trace' = <<>>
    /\ UNCHANGED <<app, pc, globals, store, pol, enc, memo, feat, today, inflight>>

\* ---------------------------------------------------------------- threaded requests
\* app.py, predict_single run by the threads of the server, a statement group at
\* a time: the request is checked and scored, the transaction is written, the
\* alert is written, the response is built.  What a thread holds between two
\* steps are the locals of its call; model, scaler, le_dict and db_connected
\* are read, never assigned.

\* The thread takes a request: the checks, preprocess_transaction, the scaler
\* and the classifier.  A request refused or failed there is answered at once.
Conc_begin(t, body) ==
    /\ pc = "serving" /\ app = "app"
    /\ inflight[t].at = "idle"
    /\ Len(transactions) + Cardinality({u \in Threads : inflight[u].at = "scored"})
           < MaxRecords
    /\ LET early == App_handle(body, None, None).resp
       IN  inflight' =
               [inflight EXCEPT ![t] =
                   IF early.code /= 200
                   THEN [Idle EXCEPT !.at = "done", !.body = Some(body),
                                     !.resp = early]
                   ELSE [Idle EXCEPT !.at = "scored", !.body = Some(body)]]
    /\ UNCHANGED <<app, pc, globals, store, req, resp, trace, pol, enc, memo, feat,
                   today>>

\* 'transaction_id = FraudTransaction.create(data, prediction_data)' inside
\* 'if db_connected and DATABASE_AVAILABLE'.
Conc_tx_write(t, txErr) ==
    /\ inflight[t].at = "scored"
    /\ LET body == Get(inflight[t].body)
           tid == Len(transactions) + 1
       IN  IF ~(db_connected /\ DATABASE_AVAILABLE)
           THEN /\ inflight' = [inflight EXCEPT ![t].at = "respond"]
                /\ UNCHANGED transactions
           ELSE IF IsSome(txErr)
           THEN /\ inflight' =
                       [inflight EXCEPT ![t].at = "respond",
                                        ![t].db_save_status = <<"failed", Get(txErr)>>]
                /\ UNCHANGED transactions
           ELSE /\ transactions' =
                       Append(transactions,
                              FraudTransaction_create(
                                  tid, body,
                                  App_prediction_data(body.prediction, body.p)))
                /\ inflight' =
                       [inflight EXCEPT
                           ![t].transaction_id = Some(tid),
                           ![t].db_save_status = <<"success">>,
                           ![t].at = IF App_alert_due(body.prediction, body.p)
                                     THEN "alert" ELSE "respond"]
    /\ UNCHANGED <<app, pc, globals, alerts, req, resp, trace, pol, enc, memo, feat,
                   today>>

\* The alert written for the transaction the collection got last.
Conc_alert_of_latest_transaction(t) ==
    LET body == Get(inflight[t].body)
    IN  FraudAlert_create(Len(alerts) + 1, Len(transactions),
                          App_alert_data(body.p, App_risk_level(body.p),
                                         App_action(body.prediction, body.p)))

\* 'FraudAlert.create(transaction_id, alert_data)': the alert of the thread's
\* own transaction_id.
Conc_alert(t) ==
    LET body == Get(inflight[t].body)
    IN  FraudAlert_create(Len(alerts) + 1, Get(inflight[t].transaction_id),
                          App_alert_data(body.p, App_risk_level(body.p),
                                         App_action(body.prediction, body.p)))

Conc_alert_write(t, alErr) ==
    /\ inflight[t].at = "alert"
    /\ IF IsSome(alErr)
       THEN /\ inflight' =
                   [inflight EXCEPT ![t].at = "respond",
                                    ![t].db_save_status = <<"failed", Get(alErr)>>]
            /\ UNCHANGED alerts
       ELSE /\ alerts' = Append(alerts, Conc_alert(t))
            /\ inflight' = [inflight EXCEPT ![t].at = "respond",
                                            ![t].alert_id = Some(Len(alerts) + 1)]
    /\ UNCHANGED <<app, pc, globals, transactions, req, resp, trace, pol, enc, memo,
                   feat, today>>

\* The response is built from the locals.
Conc_respond(t) ==
    /\ inflight[t].at = "respond"
    /\ LET body == Get(inflight[t].body)
       IN  inflight' =
               [inflight EXCEPT
                   ![t].at = "done",
                   ![t].resp =
                       [NoResp EXCEPT
                           !.endpoint = "predict", !.code = 200, !.success = TRUE,
                           !.transaction_id = inflight[t].transaction_id,
                           !.alert_id = inflight[t].alert_id,
                           !.database_save_status = Some(inflight[t].db_save_status),
                           !.prediction =
                               Some(App_response_prediction(body.prediction, body.p)),
                           !.action = Some(App_action(body.prediction, body.p))]]
    /\ UNCHANGED <<app, pc, globals, store, req, resp, trace, pol, enc, memo, feat,
                   today>>

\* The response leaves the thread, which is free for the next request.
Conc_return(t) ==
    /\ inflight[t].at = "done"
    /\ inflight' = [inflight EXCEPT ![t] = Idle]
    /\ UNCHANGED <<app, pc, globals, store, req, resp, trace, pol, enc, memo, feat,
                   today>>

\* ---------------------------------------------------------------- reading endpoints
\* app_with_database.py: the GET endpoints that read the store.
ReadEndpoints ==
    {"get_fraud_transactions", "get_all_transactions", "get_transaction",
     "get_alerts", "get_daily_report", "get_fraud_patterns", "get_statistics",
     "search_transactions"}

\* What a reading endpoint answers once its query has run: the count of the
\* list endpoints, 404 for a transaction id the collection does not hold.
read_answer(endpoint, id) ==
    LET ok == [NoResp EXCEPT !.endpoint = endpoint, !.code = 200, !.success = TRUE]
        fraudulent == {i \in DOMAIN transactions : transactions[i].is_fraud}
        pending == {i \in DOMAIN alerts : alerts[i].status = "pending"}
    IN  IF endpoint = "get_fraud_transactions"
        THEN [ok EXCEPT !.count = Some(Cardinality(fraudulent))]
        ELSE IF endpoint = "get_all_transactions"
        THEN [ok EXCEPT !.count = Some(Len(transactions))]
        ELSE IF endpoint = "get_alerts"
        THEN [ok EXCEPT !.count = Some(Cardinality(pending))]
        ELSE IF endpoint = "get_transaction" /\ id \notin DOMAIN transactions
        THEN [NoResp EXCEPT !.endpoint = endpoint, !.code = 404,
                            !.error = "Transaction not found"]
        ELSE ok

\* The endpoints with the query run whether or not the database is connected.
Db_read_handle_unguarded(endpoint, id, qErr) ==
    IF IsSome(qErr)
    THEN Handled([NoResp EXCEPT !.endpoint = endpoint, !.code = 500,
                                !.error = Get(qErr)],
                 <<"query", "query_raised">>, transactions, alerts)
    ELSE Handled(read_answer(endpoint, id), <<"query">>, transactions, alerts)

\* A reading endpoint: 503 before anything else when db_connected is false,
\* then the query, whose exception (qErr) is answered 500.
Db_read_handle(endpoint, id, qErr) ==
    IF ~db_connected THEN Refused(endpoint, 503, "Database not connected")
    ELSE IF IsSome(qErr)
    THEN Handled([NoResp EXCEPT !.endpoint = endpoint, !.code = 500,
                                !.error = Get(qErr)],
                 <<"query", "query_raised">>, transactions, alerts)
    ELSE Handled(read_answer(endpoint, id), <<"query">>, transactions, alerts)

Db_read(endpoint, id, qErr) ==
    /\ pc = "serving" /\ app = "app_with_database"
    /\ resp = NoResp
    /\ LET h == Db_read_handle(endpoint, id, qErr)
       IN  /\ req' = None
           /\ resp' = h.resp
           /\ trace' = h.trace
           /\ transactions' = h.txs
           /\ alerts' = h.als
    /\ UNCHANGED <<app, pc, globals, pol, enc, memo, feat, today, inflight>>

\* ---------------------------------------------------------------- GET /api/stats/trends
\* Time is counted in whole days.  The clock of the server passes midnight.
midnight ==
    /\ pc = "serving"
    /\ resp = NoResp
    /\ today < MaxDay
    /\ today' = today + 1
    /\ UNCHANGED <<app, pc, globals, store, req, resp, trace, pol, enc, memo, feat,
                   inflight>>

\* The $match stage: the records created in the last 'days' days.
trend_match(days) ==
    {i \in DOMAIN transactions :
        /\ transactions[i].created_at >= today - days
        /\ transactions[i].created_at <= today}

\* The $group stage for one day: the count of the day's records, of those with
\* is_fraud true and of those with 30 <= fraud_probability <= 70 (percent, here
\* in hundredths).
trend_group(days, day) ==
    LET of_day == {i \in trend_match(days) : transactions[i].created_at = day}
    IN  [total |-> Cardinality(of_day),
         fraud |-> Cardinality({i \in of_day : transactions[i].is_fraud}),
         under_review |->
             Cardinality({i \in of_day :
                 /\ transactions[i].fraud_probability >= 3000
                 /\ transactions[i].fraud_probability <= 7000})]

\* trend_data: one entry per day that has a matched record, sorted by day.
trend_data(days) ==
    LET dates == {transactions[i].created_at : i \in trend_match(days)}
        entry(day) ==
            LET result == trend_group(days, day)
            IN  [date         |-> day,
                 normal       |-> result.total - result.fraud - result.under_review,
                 fraudulent   |-> result.fraud,
                 under_review |-> result.under_review,
                 total        |-> result.total]
        sorted == CHOOSE q \in [1 .. Cardinality(dates) -> dates] :
                      \A i, j \in DOMAIN q : i < j => q[i] < q[j]
    IN  [i \in DOMAIN sorted |-> entry(sorted[i])]

\* statistics_api.py: get_fraud_trends.  Without a connection get_collection
\* returns None and the aggregate call raises, which is answered 500.
get_fraud_trends(days) ==
    /\ pc = "serving"
    /\ resp = NoResp
    /\ req' = None
    /\ IF ~db_connected
       THEN /\ resp' = [NoResp EXCEPT !.endpoint = "get_fraud_trends", !.code = 500,
                                      !.error = "AttributeError"]
            /\ trace' = <<>>
       ELSE /\ resp' = [NoResp EXCEPT !.endpoint = "get_fraud_trends", !.code = 200,
                                      !.success = TRUE,
                                      !.results = trend_data(days)]
            /\ trace' = <<"query">>
    /\ UNCHANGED <<app, pc, globals, store, pol, enc, memo, feat, today, inflight>>

\* ---------------------------------------------------------------- POST /api/predict/batch
\* Probabilities the classifier returns for the items of a batch: the first
\* grid point at or above each of the risk thresholds 0.3 and 0.6.
BatchProbs ==
    {p \in Probs : \E t \in {3, 6} : 10 * p - t * PScale \in 0 .. 9}

\* The items of a batch: complete transactions, a transaction without its
\* timestamp (KeyError), one without CustomerAge (ValueError at the scaler), and
\* an item that is a number and no object (AttributeError).
BatchItems ==
    CompleteBodies(BatchProbs)
        \cup {Body("dict", required_fields \ {f}, 0, 0) :
                 f \in {"TransactionDate", "CustomerAge"}}
        \cup {Body("scalar", {}, 0, 0)}

Batches(n) == UNION {[1 .. k -> BatchItems] : k \in 1 .. n}

\* A batch request body.  kind: "empty" (falsy), "scalar", "no_key" (an object
\* without 'transactions'), "not_list" ('transactions' is no list or is []),
\* "list".
BatchBody(kind, items) == [kind |-> kind, items |-> items]

BatchBodies(n) ==
    {BatchBody(k, <<>>) : k \in {"empty", "scalar", "no_key", "not_list"}}
        \cup {BatchBody("list", b) : b \in Batches(n)}

\* predict_batch: the entry appended to results for the item at position idx.
batch_entry(le, sc, idx, item) ==
    IF score_error(le, sc, item) /= ""
    THEN [transaction_id |-> idx, ok |-> FALSE, is_fraud |-> FALSE,
          fraud_label |-> "", probability |-> 0, risk_level |-> "",
          error |-> score_error(le, sc, item), status |-> "failed"]
    ELSE [transaction_id |-> idx, ok |-> TRUE, is_fraud |-> item.prediction /= 0,
          fraud_label |-> IF item.prediction = 1 THEN "FRAUD" ELSE "LEGITIMATE",
          probability |-> Round2Pct(item.p),
          risk_level |-> Batch_risk_level(item.p),
          error |-> "", status |-> ""]

\* The loop with the first exception ending it.
batch_results_abort(le, sc, items) ==
    LET bad == {i \in 1 .. Len(items) : score_error(le, sc, items[i]) /= ""}
        stop == IF bad = {} THEN Len(items)
                ELSE CHOOSE i \in bad : \A j \in bad : i <= j
    IN  [i \in 1 .. stop |-> batch_entry(le, sc, i, items[i])]

\* predict_batch: the loop over enumerate(transactions).  An exception raised
\* for an item is caught inside the loop body.
batch_results(le, sc, items) ==
    [i \in 1 .. Len(items) |-> batch_entry(le, sc, i, items[i])]

\* The summary with every item that is no fraud counted as legitimate, the
\* failed ones included.
batch_summary_failed_as_legitimate(n, results) ==
    LET successful == {i \in 1 .. Len(results) : results[i].ok}
        fraud_count == Cardinality({i \in successful : results[i].is_fraud})
    IN  [total_transactions |-> n,
         processed          |-> Cardinality(successful),
         failed             |-> n - Cardinality(successful),
         fraud_detected     |-> fraud_count,
         legitimate         |-> n - fraud_count,
         fraud_percentage   |-> IF successful /= {}
                                THEN RoundHalfEven(fraud_count * 10000,
                                                   Cardinality(successful))
                                ELSE 0]

\* predict_batch: the summary of a result list.
batch_summary(n, results) ==
    LET successful == {i \in 1 .. Len(results) : results[i].ok}
        fraud_count == Cardinality({i \in successful : results[i].is_fraud})
    IN  [total_transactions |-> n,
         processed          |-> Cardinality(successful),
         failed             |-> n - Cardinality(successful),
         fraud_detected     |-> fraud_count,
         legitimate         |-> Cardinality(successful) - fraud_count,
         fraud_percentage   |-> IF successful /= {}
                                THEN RoundHalfEven(fraud_count * 10000,
                                                   Cardinality(successful))
                                ELSE 0]

\* The steps the batch loop entered, item after item.
RECURSIVE batch_steps(_, _, _)
batch_steps(le, sc, items) ==
    IF items = <<>> THEN <<>>
    ELSE score_steps(le, sc, Head(items)) \o batch_steps(le, sc, Tail(items))

\* app.py: predict_batch.
Batch_handle(bb) ==
    IF ~models_loaded THEN Refused("batch", 503, "Models not loaded")
    ELSE IF bb.kind = "empty" THEN Refused("batch", 400, "Invalid format")
    ELSE IF bb.kind = "scalar"
         THEN Failed500("batch", "Batch prediction failed", "TypeError", <<>>)
    ELSE IF bb.kind = "no_key" THEN Refused("batch", 400, "Invalid format")
    ELSE IF bb.kind = "not_list" THEN Refused("batch", 400, "Invalid transactions")
    ELSE LET results == batch_results(le_dict, scaler, bb.items)
         IN  Handled([NoResp EXCEPT
                         !.endpoint = "batch", !.code = 200, !.success = TRUE,
                         !.results = results,
                         !.summary = Some(batch_summary(Len(bb.items), results))],
                     batch_steps(le_dict, scaler, bb.items), transactions, alerts)

App_predict_batch(bb) ==
    /\ pc = "serving" /\ app = "app"
    /\ Apply(bb, Batch_handle(bb))
    /\ UNCHANGED memo

\* ---------------------------------------------------------------- feature frames
\* app.py, predict_single up to scaler.transform: the frame handed to the scaler
\* for a body that passed the required-fields check.
App_single_features(row) ==
    /\ pc = "serving" /\ app = "app"
    /\ models_loaded /\ feat = NoFeat
    /\ required_fields \subseteq Range(row.keys)
    /\ feat' = [site |-> "single", request |-> <<row>>,
                frames |-> <<preprocess_frame(le_dict, <<row>>, 1)>>]
    /\ UNCHANGED <<app, pc, globals, store, req, resp, trace, pol, enc, memo, today, inflight>>

\* app_with_database.py, predict_single up to scaler.transform: the same
\* preprocess_transaction, reached without a required-fields check.
Db_single_features(row) ==
    /\ pc = "serving" /\ app = "app_with_database"
    /\ models_loaded /\ feat = NoFeat
    /\ indexed_cols \subseteq Range(row.keys)
    /\ feat' = [site |-> "db_single", request |-> <<row>>,
                frames |-> <<preprocess_frame(le_dict, <<row>>, 1)>>]
    /\ UNCHANGED <<app, pc, globals, store, req, resp, trace, pol, enc, memo, today, inflight>>

\* app.py, predict_batch: the frames handed to the scaler in the loop, one per
\* item.
App_batch_features(rows) ==
    /\ pc = "serving" /\ app = "app"
    /\ models_loaded /\ feat = NoFeat
    /\ feat' = [site |-> "batch", request |-> rows,
                frames |-> [i \in DOMAIN rows |->
                               preprocess_frame(le_dict, rows, i)]]
    /\ UNCHANGED <<app, pc, globals, store, req, resp, trace, pol, enc, memo, today, inflight>>

\* ---------------------------------------------------------------- specifications
Startup ==
    \/ \E n \in 0 .. 3, sc \in ScalerArtifacts, le \in EncoderArtifacts :
          load_models(n, sc, le)
    \/ main_exit
    \/ \E connected \in BOOLEAN : init_database(connected)
    \/ serve_imported

\* The service with its store: both programs, single predictions and short batches.
Next ==
    \/ Startup
    \/ \E body \in Bodies, txErr \in WriteErrors, alErr \in WriteErrors :
          App_predict_single(body, txErr, alErr)
    \/ \E body \in Bodies, txErr \in WriteErrors, alErr \in WriteErrors :
          Db_predict_single(body, txErr, alErr)
    \/ \E bb \in BatchBodies(GateBatch) : App_predict_batch(bb)
    \/ health_check
    \/ return_response

Spec == Init /\ [][Next]_vars

\* Probabilities of the repeat runs: 0 and the first grid point above 0.7.
RepeatProbs == {p \in Probs : p = 0 \/ 10 * p - 7 * PScale \in 1 .. 10}

RepeatBodies ==
    {Body("empty", {}, 0, 0), Body("dict", required_fields \ {"CustomerAge"}, 0, 0)}
        \cup CompleteBodies(RepeatProbs)

\* Both programs answering requests, one of the scored requests being remembered.
RepeatNext ==
    \/ Startup
    \/ \E body \in RepeatBodies, txErr \in WriteErrors, alErr \in WriteErrors :
          \/ App_predict_single(body, txErr, alErr)
          \/ App_predict_single_noted(body, txErr, alErr)
          \/ Db_predict_single(body, txErr, alErr)
          \/ Db_predict_single_noted(body, txErr, alErr)
    \/ \E bb \in BatchBodies(GateBatch) : App_predict_batch(bb)
    \/ return_response

SpecRepeat == Init /\ [][RepeatNext]_vars

\* The store under scoring, review and housekeeping: a legitimate and an
\* alerting transaction, alert updates, review updates and archiving.
ReviewBodies ==
    {Body("dict", required_fields, l, p) : l \in Labels, p \in RepeatProbs}

ReviewNext ==
    \/ Startup
    \/ \E body \in ReviewBodies, txErr \in WriteErrors, alErr \in WriteErrors :
          \/ App_predict_single(body, txErr, alErr)
          \/ Db_predict_single(body, txErr, alErr)
    \/ \E id \in 1 .. MaxRecords + 1, has_json \in BOOLEAN, status \in Statuses :
          update_alert(id, has_json, status)
    \/ \E id \in 1 .. MaxRecords + 1 :
          \/ FraudTransaction_update_review_status(id, TRUE, Some("checked"))
          \/ FraudTransaction_update_review_status(id, FALSE, None)
    \/ \E old \in 0 .. MaxRecords + 1 : archive_old_transactions(old)
    \/ return_response

SpecReview == Init /\ [][ReviewNext]_vars

\* Probabilities of the trend runs: 0 and the first grid points from 0.4, 0.6
\* and 0.9 on.
TrendProbs ==
    {p \in Probs : p = 0 \/ \E t \in {4, 6, 9} : 10 * p - t * PScale \in 0 .. 9}

\* What the classifier answers in the trend runs: the label is 1 exactly when
\* the probability is above one half.
TrendBodies ==
    {Body("dict", required_fields, IF 2 * p > PScale THEN 1 ELSE 0, p) :
        p \in TrendProbs}

\* app_with_database.py storing what it scores over several days, and the
\* trends read from its store.
TrendsInit == Init /\ app = "app_with_database"

TrendsNext ==
    \/ Startup
    \/ \E body \in TrendBodies : Db_predict_single(body, None, None)
    \/ midnight
    \/ \E days \in 1 .. MaxDay + 1 : get_fraud_trends(days)
    \/ return_response

SpecTrends == TrendsInit /\ [][TrendsNext]_vars

\* The requests of the threaded runs: a body without CustomerAge, a legitimate
\* transaction and two frauds with different probabilities above 0.7.
ConcBodies ==
    {Body("dict", required_fields \ {"CustomerAge"}, 0, 0),
     Body("dict", required_fields, 0, 0)}
        \cup {Body("dict", required_fields, 1, p) :
                 p \in {q \in Probs : \E t \in {8, 9} : 10 * q - t * PScale \in 0 .. 9}}

\* app.py answering requests on two threads.
ConcInit == Init /\ app = "app"

ConcNext ==
    \/ Startup
    \/ \E t \in Threads, body \in ConcBodies : Conc_begin(t, body)
    \/ \E t \in Threads, txErr \in WriteErrors : Conc_tx_write(t, txErr)
    \/ \E t \in Threads, alErr \in WriteErrors : Conc_alert_write(t, alErr)
    \/ \E t \in Threads : Conc_respond(t)
    \/ \E t \in Threads : Conc_return(t)

SpecConc == ConcInit /\ [][ConcNext]_vars

\* Both programs scoring and the reading endpoints of app_with_database.py.
ReadsNext ==
    \/ Startup
    \/ \E body \in ReviewBodies, txErr \in WriteErrors, alErr \in WriteErrors :
          \/ App_predict_single(body, txErr, alErr)
          \/ Db_predict_single(body, txErr, alErr)
    \/ \E endpoint \in ReadEndpoints, id \in 1 .. MaxRecords + 1,
          qErr \in WriteErrors : Db_read(endpoint, id, qErr)
    \/ return_response

SpecReads == Init /\ [][ReadsNext]_vars

\* The transactions of the feature runs: the documented key order with every
\* combination of a parseable or unparseable date and previous date, and, with
\* good dates, the keys in another order and with one more key.
swapped_order ==
    [i \in DOMAIN documented_order |->
        IF i = 1 THEN documented_order[3]
        ELSE IF i = 3 THEN documented_order[1] ELSE documented_order[i]]

FeatRows ==
    {Row(documented_order, d, q, Some(30)) :
        d \in {Ts(30), BadTs}, q \in {Ts(0), Ts(10), BadTs}}
        \cup {Row(k, Ts(30), Ts(0), Some(30)) :
                 k \in {swapped_order, Append(documented_order, "Note")}}

\* The timestamps of the single feature runs: the hours 0, 6, 7, 21, 22 and 23
\* of the seven days of a week, and 01/02/2024 00:00.
SingleHours ==
    {24 * d + h : d \in 0 .. 6, h \in {0, 6, 7, 21, 22, 23}} \cup {24 * 31}

\* The transactions of the single feature runs: those of the batches and, in
\* the documented key order, every timestamp above or an unparseable one, the
\* previous date parseable or not, CustomerAge a number or null.
SingleRows ==
    FeatRows \cup
    {Row(documented_order, d, q, a) :
        d \in {Ts(h) : h \in SingleHours} \cup {BadTs},
        q \in {Ts(0), BadTs}, a \in {Some(30), None}}

FeatBatches(n) == UNION {[1 .. k -> FeatRows] : k \in 1 .. n}

FeatInit == Init /\ (app = "app" => ~DATABASE_AVAILABLE)

FeatNext ==
    \/ Startup
    \/ \E row \in SingleRows : App_single_features(row)
    \/ \E row \in SingleRows : Db_single_features(row)
    \/ \E rows \in FeatBatches(MaxBatch) : App_batch_features(rows)

SpecFeatures == FeatInit /\ [][FeatNext]_vars

\* app.py serving batches only, started without the database package
\* (predict_batch reads neither db_connected nor the store).
BatchInit == Init /\ app = "app" /\ ~DATABASE_AVAILABLE

BatchNext ==
    \/ Startup
    \/ \E bb \in BatchBodies(MaxBatch) : App_predict_batch(bb)
    \/ return_response

SpecBatch == BatchInit /\ [][BatchNext]_vars

\* The risk / action / confidence policy alone, on every grid probability.
PolicyInit ==
    /\ ServiceInit
    /\ enc = NoEnc /\ memo = None /\ feat = NoFeat
    /\ pol \in {[NoPol EXCEPT !.prediction = l, !.p = p] : l \in Labels, p \in Probs}

Classified(site, risk_level, action, confidence, probability) ==
    [pol EXCEPT !.site = site, !.risk_level = risk_level, !.action = action,
                !.confidence = confidence, !.probability = probability]

\* app.py, predict_single: what the response says of a classifier output.
App_classify ==
    /\ app = "app" /\ pol.site = ""
    /\ LET rp == App_response_prediction(pol.prediction, pol.p)
       IN  pol' = Classified("app_single", rp.risk_level,
                             App_action(pol.prediction, pol.p), rp.confidence,
                             rp.probability)
    /\ UNCHANGED <<app, pc, globals, store, req, resp, trace, enc, memo, feat, today, inflight>>

\* app.py, predict_batch: what a result entry says of a classifier output.
Batch_classify ==
    /\ app = "app" /\ pol.site = ""
    /\ pol' = Classified("app_batch", Batch_risk_level(pol.p), "", 0,
                         Round2Pct(pol.p))
    /\ UNCHANGED <<app, pc, globals, store, req, resp, trace, enc, memo, feat, today, inflight>>

\* app_with_database.py, predict_single.
Db_classify ==
    /\ app = "app_with_database" /\ pol.site = ""
    /\ LET rp == Db_response_prediction(pol.prediction, pol.p)
       IN  pol' = Classified("db_single", rp.risk_level,
                             Db_action(pol.prediction, pol.p), rp.confidence,
                             rp.probability)
    /\ UNCHANGED <<app, pc, globals, store, req, resp, trace, enc, memo, feat, today, inflight>>

PolicyNext == App_classify \/ Batch_classify \/ Db_classify

SpecPolicy == PolicyInit /\ [][PolicyNext]_vars

\* The categorical encoding alone: values encoded against the loaded registry.
Encode(code_of, col, x) ==
    /\ pc = "serving" /\ models_loaded
    /\ col \in DOMAIN Get(le_dict)
    /\ x \in FieldValues(Get(le_dict)[col])
    /\ LET again == enc.col = col /\ enc.value = x
           sofar == IF again THEN enc.results ELSE <<>>
       IN  /\ Len(sofar) < MaxCalls
           /\ enc' = [col |-> col, value |-> x, results |-> Append(sofar, code_of)]
    /\ UNCHANGED <<app, pc, globals, store, req, resp, trace, pol, memo, feat, today, inflight>>

App_encode_column(col, x) ==
    /\ app = "app"
    /\ Encode(App_encode(Get(le_dict), col, x), col, x)

Db_encode_column(col, x) ==
    /\ app = "app_with_database"
    /\ Encode(Db_encode(Get(le_dict), col, x), col, x)

EncValues == UNION {FieldValues(label_encoders[c]) : c \in categorical_cols}

EncNext ==
    \/ Startup
    \/ \E col \in categorical_cols, x \in EncValues : App_encode_column(col, x)
    \/ \E col \in categorical_cols, x \in EncValues : Db_encode_column(col, x)

SpecEnc == Init /\ [][EncNext]_vars

\* ---------------------------------------------------------------- claims
Steps == Range(trace)
ReqBody == Get(req)
SingleAnswered == resp.endpoint = "predict"
SingleOK == resp.endpoint = "predict" /\ resp.code = 200

\* C1: for every probability the classifier produces, the risk level reported by
\* predict_single of app.py, by predict_batch and by predict_single of
\* app_with_database.py is Low iff p < 0.30, Medium iff 0.30 <= p < 0.60 and
\* High iff p >= 0.60.
C1_RiskBands ==
    pol.site /= "" =>
        /\ pol.risk_level = "Low" <=> 10 * pol.p < 3 * PScale
        /\ pol.risk_level = "Medium" <=>
              (3 * PScale <= 10 * pol.p /\ 10 * pol.p < 6 * PScale)
        /\ pol.risk_level = "High" <=> 10 * pol.p >= 6 * PScale

C1_Witness ==
    /\ pol.site = "app_batch"
    /\ 10 * pol.p = 3 * PScale
    /\ pol.risk_level = "Medium"

\* C2: the recommended action of predict_single is BLOCK iff the label is fraud
\* and p > 0.70, otherwise REVIEW iff the label is fraud or p > 0.50, otherwise
\* ALLOW; fraud at p = 0.70 is REVIEW, and not-fraud above 0.70 is REVIEW.
C2_ActionPolicy ==
    pol.site \in {"app_single", "db_single"} =>
        LET block == pol.prediction = 1 /\ 10 * pol.p > 7 * PScale
            review == ~block /\ (pol.prediction = 1 \/ 10 * pol.p > 5 * PScale)
        IN  /\ pol.action = "BLOCK" <=> block
            /\ pol.action = "REVIEW" <=> review
            /\ pol.action = "ALLOW" <=> (~block /\ ~review)
            /\ (pol.prediction = 1 /\ 10 * pol.p = 7 * PScale) => pol.action = "REVIEW"
            /\ (pol.prediction = 0 /\ 10 * pol.p > 7 * PScale) => pol.action = "REVIEW"

C2_Witness ==
    /\ pol.site = "db_single"
    /\ pol.prediction = 0
    /\ 10 * pol.p > 7 * PScale
    /\ pol.action = "REVIEW"

\* C3: the confidence in the response of predict_single is probability * 100 for
\* a fraud label and (1 - probability) * 100 otherwise, rounded to two decimals;
\* it lies in [0, 100], and the transaction record written by the same request
\* carries the same value.
C3_Confidence ==
    SingleOK =>
        LET x == IF ReqBody.prediction = 1 THEN ReqBody.p ELSE PScale - ReqBody.p
            c == Get(resp.prediction).confidence
        IN  /\ c \in 0 .. 10000
            /\ 2 * Abs(c * PScale - 10000 * x) <= PScale
            /\ IsSome(resp.transaction_id) =>
                  transactions[Get(resp.transaction_id)].confidence = c

C3_Witness ==
    /\ SingleOK
    /\ IsSome(resp.transaction_id)
    /\ ReqBody.prediction = 0
    /\ (10000 * ReqBody.p) % PScale /= 0
    /\ Get(resp.prediction).confidence > 0

\* C4: predict_single writes an alert only for a fraud label with probability
\* above 0.7; its severity is critical iff the probability is above 0.9 and high
\* otherwise; one call writes at most one alert, for the transaction record it
\* has just created.
C4_AlertPolicy ==
    /\ "alert_write" \in Steps =>
          (ReqBody.prediction = 1 /\ 10 * ReqBody.p > 7 * PScale)
    /\ Cardinality({i \in DOMAIN trace : trace[i] = "alert_write"}) <= 1
    /\ IsSome(resp.alert_id) =>
          /\ IsSome(resp.transaction_id)
          /\ alerts[Get(resp.alert_id)].transaction_id = Get(resp.transaction_id)
          /\ alerts[Get(resp.alert_id)].fraud_probability = ReqBody.p
    /\ \A i \in DOMAIN alerts :
          /\ alerts[i].transaction_id \in DOMAIN transactions
          /\ transactions[alerts[i].transaction_id].is_fraud
          /\ 10 * alerts[i].fraud_probability > 7 * PScale
          /\ alerts[i].severity =
                (IF 10 * alerts[i].fraud_probability > 9 * PScale
                 THEN "critical" ELSE "high")
          /\ \A j \in DOMAIN alerts :
                alerts[j].transaction_id = alerts[i].transaction_id => i = j

C4_Witness ==
    /\ IsSome(resp.alert_id)
    /\ 10 * ReqBody.p = 9 * PScale
    /\ alerts[Get(resp.alert_id)].severity = "high"
    /\ Len(alerts) = 2

\* C5: when scoring succeeds and the transaction write fails while the database
\* is marked connected, POST /api/predict answers 200 with the scoring result it
\* would have given anyway, and no field of the response says the record was
\* saved: no transaction id, no 'success' status, no saved_to_database = true.
C5_WriteFailureReported ==
    (SingleAnswered /\ "tx_write_raised" \in Steps) =>
        LET clean == IF app = "app" THEN App_handle(ReqBody, None, None)
                     ELSE Db_handle(ReqBody, None, None)
        IN  /\ resp.code = 200
            /\ resp.prediction = clean.resp.prediction
            /\ resp.action = clean.resp.action
            /\ resp.transaction_id = None
            /\ resp.database_save_status /= Some(<<"success">>)
            /\ resp.saved_to_database /= Some(TRUE)

\* The status a response carries about persistence.
SaveStatus(r) == <<r.database_save_status, r.saved_to_database>>

\* The statuses the running program gives when the transaction write fails
\* (nothing saved), and when every write succeeds.
HandleOf(body, txErr, alErr) ==
    IF app = "app" THEN App_handle(body, txErr, alErr)
    ELSE Db_handle(body, txErr, alErr)

NothingSavedStatuses ==
    {SaveStatus(HandleOf(b, Some(e), None).resp) :
        b \in CompleteBodies(ServiceProbs), e \in ErrMsgs}

AllSavedStatuses ==
    {SaveStatus(HandleOf(b, None, None).resp) : b \in CompleteBodies(ServiceProbs)}

\* C6: when the transaction write succeeds and the alert write fails, the
\* response carries the transaction id, no alert id, and a status that differs
\* from the status of a full success and from the status of a failure in which
\* nothing was saved.
C6_PartialFailureSurfaced ==
    (SingleAnswered /\ "alert_write_raised" \in Steps) =>
        /\ IsSome(resp.transaction_id)
        /\ resp.alert_id = None
        /\ SaveStatus(resp) \notin AllSavedStatuses
        /\ SaveStatus(resp) \notin NothingSavedStatuses

\* One of the three artifacts load_models() sets is still None.
AnArtifactMissing == model = None \/ scaler = None \/ le_dict = None

\* C7: while the classifier, the scaler or the encoder registry is not loaded,
\* POST /api/predict and POST /api/predict/batch answer 503 whatever the body,
\* enter no preprocessing or scoring step and leave both collections unchanged.
C7_Unavailable ==
    [][(/\ AnArtifactMissing
        /\ resp = NoResp
        /\ resp'.endpoint \in {"predict", "batch"}) =>
          (/\ resp'.code = 503
           /\ trace' = <<>>
           /\ UNCHANGED store)]_vars

C7_Witness ==
    /\ resp.endpoint = "batch"
    /\ resp.code = 503
    /\ model /= None
    /\ le_dict = None
    /\ ReqBody.kind = "list"

\* C8: POST /api/predict, in app.py and in app_with_database.py, rejects a
\* non-empty body that lacks one of the 19 required fields with a 4xx response,
\* before any preprocessing, scoring or persistence step.
C8_MissingFieldsRejected ==
    (/\ SingleAnswered
     /\ models_loaded
     /\ ReqBody.kind /= "empty"
     /\ ~(required_fields \subseteq ReqBody.keys)) =>
        /\ resp.code \in 400 .. 499
        /\ trace = <<>>

\* The loaded scaler and registry are those the frames of complete transactions
\* fit: all columns fitted, every categorical column with its encoder.
ArtifactsFit == scaler = Some(FittedColumns) /\ le_dict = Some(label_encoders)

\* An item of a batch that cannot be scored: no object, or an object that lacks
\* a required field.
Malformed(item) == item.kind /= "dict" \/ ~(required_fields \subseteq item.keys)

Without(items, j) ==
    [i \in 1 .. Len(items) - 1 |-> IF i < j THEN items[i] ELSE items[i + 1]]

ScoreOf(entry) ==
    <<entry.ok, entry.is_fraud, entry.fraud_label, entry.probability, entry.risk_level>>

\* C9: predict_batch answers a list of n transactions with n entries in input
\* order; an item whose processing raises is a failed entry with its index and
\* the error message; with artifacts that fit, the failed entries are those of
\* the malformed items; every other item is scored as it is when the failing
\* item is left out of the batch.
C9_BatchIsolation ==
    (resp.endpoint = "batch" /\ resp.code = 200) =>
        LET items == ReqBody.items
            res == resp.results
        IN  /\ Len(res) = Len(items)
            /\ \A i \in DOMAIN items :
                  /\ res[i].transaction_id = i
                  /\ res[i].ok <=> (~Malformed(items[i]) /\ ArtifactsFit)
                  /\ ~res[i].ok => (res[i].status = "failed" /\ res[i].error /= "")
                  /\ res[i].ok =>
                        /\ res[i].is_fraud = (items[i].prediction = 1)
                        /\ res[i].probability = Round2Pct(items[i].p)
            /\ \A j \in DOMAIN items :
                  ~res[j].ok =>
                      LET rest == batch_results(le_dict, scaler, Without(items, j))
                      IN  \A i \in DOMAIN items \ {j} :
                             ScoreOf(res[i]) = ScoreOf(rest[IF i < j THEN i ELSE i - 1])

C9_Witness ==
    /\ resp.endpoint = "batch" /\ resp.code = 200
    /\ Len(resp.results) = 3
    /\ resp.results[1].ok /\ resp.results[1].is_fraud
    /\ ~resp.results[2].ok /\ resp.results[2].error = "KeyError"
    /\ resp.results[3].ok /\ resp.results[3].risk_level = "Medium"

\* C10: encoding a categorical value gives the fixed code of the value when it is
\* one of the column's known classes and the code of the first class otherwise;
\* no error is raised, the result is one of the column's codes, and encoding the
\* same value again gives the same code.
C10_Encoding ==
    enc.col /= "" =>
        LET classes == Get(le_dict)[enc.col]
            known == enc.value.t = "str" /\ enc.value.v \in Range(classes)
            CodeOf(v) == (CHOOSE i \in DOMAIN classes : classes[i] = v) - 1
        IN  \A k \in DOMAIN enc.results :
                /\ enc.results[k].error = ""
                /\ IsSome(enc.results[k].code)
                /\ Get(enc.results[k].code) \in 0 .. Len(classes) - 1
                /\ known => Get(enc.results[k].code) = CodeOf(enc.value.v)
                /\ ~known => Get(enc.results[k].code) = CodeOf(classes[1])
                /\ enc.results[k] = enc.results[1]

C10_Witness ==
    /\ enc.col = "Channel"
    /\ enc.value = Str("atm")
    /\ Len(enc.results) >= 2
    /\ \A k \in DOMAIN enc.results : enc.results[k].code = Some(0)

\* C11: a request for a transaction that was scored before gets the same label,
\* probability, risk level, action and confidence as the first time, whatever
\* requests were answered and whatever was written to the store in between.
C11_Deterministic ==
    (SingleOK /\ memo /= None /\ ReqBody = Get(memo).body) =>
        Score(resp) = Get(memo).score

C11_Witness ==
    /\ SingleOK /\ memo /= None
    /\ ReqBody = Get(memo).body
    /\ ReqBody.prediction = 0 /\ ReqBody.p = 0
    /\ Len(transactions) = 2
    /\ transactions[1].is_fraud
    /\ Len(alerts) = 1
    /\ resp.transaction_id = None

\* A request that carries a complete transaction met artifacts that do not fit:
\* a scaler fitted on other columns, or a registry without one of the encoders.
FatalHit ==
    /\ resp.endpoint \in {"predict", "batch"}
    /\ ~AnArtifactMissing /\ ~ArtifactsFit
    /\ IF resp.endpoint = "predict"
       THEN ReqBody.kind = "dict" /\ required_fields \subseteq ReqBody.keys
       ELSE /\ ReqBody.kind = "list"
            /\ \E i \in DOMAIN ReqBody.items : ~Malformed(ReqBody.items[i])

\* C12: a request that hits a fatal condition of the core (the scaler rejects
\* the shape of the features, an encoder is missing) gets a 5xx response, from
\* POST /api/predict and from POST /api/predict/batch.
C12_FatalIs5xx == FatalHit => resp.code \in 500 .. 599

\* C13: a failed load of one of the three artifacts does not end the process,
\* and GET /api/health reports the status 'healthy' only when the classifier,
\* the scaler and the encoders are all loaded.
C13_HealthReady ==
    /\ pc /= "exited"
    /\ resp.endpoint = "health" =>
          (Get(resp.health).status = "healthy" => ~AnArtifactMissing)

\* C14: an alert is created with status pending and reviewed = false; at every
\* step each alert's status is one of pending, investigating, resolved and
\* false_positive, and an alert whose status is no longer pending does not get
\* the status pending again.
C14_AlertStatus ==
    [][\A i \in DOMAIN alerts' :
          /\ alerts'[i].status \in
                {"pending", "investigating", "resolved", "false_positive"}
          /\ IF i \in DOMAIN alerts
             THEN alerts[i].status /= "pending" => alerts'[i].status /= "pending"
             ELSE alerts'[i].status = "pending" /\ ~alerts'[i].reviewed]_vars

\* C16: a POST /api/predict answered 200 while the database is connected and
\* the transaction write does not fail adds exactly one transaction record, with
\* reviewed = false and review_notes = null; no step of scoring, review or
\* housekeeping removes a record: the records present stay, with their ids.
C16_RecordsKept ==
    [][/\ Len(transactions') >= Len(transactions)
       /\ \A i \in DOMAIN transactions : transactions'[i].id = transactions[i].id
       /\ (/\ resp = NoResp /\ resp'.endpoint = "predict" /\ resp'.code = 200
           /\ db_connected /\ (app = "app" => DATABASE_AVAILABLE)
           /\ "tx_write_raised" \notin Range(trace')) =>
             /\ Len(transactions') = Len(transactions) + 1
             /\ ~transactions'[Len(transactions')].reviewed
             /\ transactions'[Len(transactions')].review_notes = None
       /\ Len(transactions') > Len(transactions) =>
             /\ Len(transactions') = Len(transactions) + 1
             /\ resp'.endpoint = "predict" /\ resp'.code = 200]_vars

C16_Witness ==
    /\ resp.endpoint = "archive_old_transactions"
    /\ resp.count = Some(2)
    /\ Len(transactions) = 2
    /\ transactions[1].reviewed /\ transactions[1].review_notes = Some("checked")
    /\ ~transactions[2].reviewed

\* A number kept in hundredths (round(x, 2) as an integer) is at most 1.
Hundredths_in_unit_interval(h) == h \in 0 .. 100

\* C15: the result predict_single returns and the transaction record it writes
\* carry a probability in [0, 1], a confidence in [0, 100], a risk level of Low,
\* Medium or High and an action of ALLOW, REVIEW or BLOCK; the probability of a
\* transaction record and the fraud_probability of its alert are the same number
\* (up to the rounding to two decimals).
C15_Ranges ==
    /\ SingleOK =>
          /\ Hundredths_in_unit_interval(Get(resp.prediction).probability)
          /\ Get(resp.prediction).confidence \in 0 .. 10000
          /\ Get(resp.prediction).risk_level \in {"Low", "Medium", "High"}
          /\ Get(resp.action) \in {"ALLOW", "REVIEW", "BLOCK"}
    /\ \A i \in DOMAIN transactions :
          /\ Hundredths_in_unit_interval(transactions[i].fraud_probability)
          /\ transactions[i].confidence \in 0 .. 10000
          /\ transactions[i].risk_level \in {"Low", "Medium", "High"}
          /\ transactions[i].action_recommended \in {"ALLOW", "REVIEW", "BLOCK"}
    /\ \A j \in DOMAIN alerts :
          LET t == transactions[alerts[j].transaction_id]
          IN  2 * Abs(t.fraud_probability * PScale - 100 * alerts[j].fraud_probability)
                 <= PScale

\* C17: in predict_single the alert write comes after the transaction write of
\* the same request and only when that write succeeded: a request whose
\* transaction write fails leaves the alerts as they were, and a request that
\* adds an alert adds one, together with one transaction record, the alert
\* carrying the id of that record, which is the transaction id of the response.
C17_AlertAfterTransaction ==
    [][(resp = NoResp /\ resp'.endpoint = "predict") =>
          /\ \A k \in DOMAIN trace' :
                trace'[k] = "alert_write" =>
                    /\ \E j \in 1 .. k - 1 : trace'[j] = "tx_write"
                    /\ "tx_write_raised" \notin Range(trace')
          /\ "tx_write_raised" \in Range(trace') => alerts' = alerts
          /\ alerts' /= alerts =>
                /\ Len(alerts') = Len(alerts) + 1
                /\ Len(transactions') = Len(transactions) + 1
                /\ SubSeq(alerts', 1, Len(alerts)) = alerts
                /\ alerts'[Len(alerts')].transaction_id =
                      transactions'[Len(transactions')].id
                /\ resp'.transaction_id =
                      Some(alerts'[Len(alerts')].transaction_id)]_vars

C17_Witness ==
    /\ SingleOK
    /\ IsSome(resp.alert_id)
    /\ trace = <<"preprocess", "scale", "predict", "tx_write", "alert_write">>
    /\ Len(transactions) = 2 /\ Len(alerts) = 1
    /\ alerts[1].transaction_id = 2

\* C18, as claimed: at probability exactly 0.30 and at probability exactly 0.60
\* the risk level of predict_single is Medium.
C18_BoundariesMedium ==
    (/\ pol.site \in {"app_single", "db_single"}
     /\ (10 * pol.p = 3 * PScale \/ 10 * pol.p = 6 * PScale)) =>
        pol.risk_level = "Medium"

\* C18, amended: at probability exactly 0.30 the risk level is Medium (not Low),
\* and at probability exactly 0.60 it is High (not Medium).
C18_Boundaries ==
    pol.site \in {"app_single", "db_single"} =>
        /\ 10 * pol.p = 3 * PScale => pol.risk_level = "Medium"
        /\ 10 * pol.p = 6 * PScale => pol.risk_level = "High"

C18_Witness ==
    /\ pol.site = "db_single"
    /\ 10 * pol.p = 6 * PScale
    /\ pol.risk_level = "High"

\* The deltas of a list of transactions that can be computed.
Computable(rows) ==
    SelectSeq([i \in DOMAIN rows |-> hours_since_prev(rows[i])], IsSome)

\* C19: in a batch call every item whose delta is missing gets, as
\* HoursSincePrevTransaction, the median of the computable deltas of the whole
\* batch when the batch has one (and not 168).
C19_BatchMedian ==
    (feat.site = "batch" /\ Computable(feat.request) /= <<>>) =>
        LET deltas == Computable(feat.request)
            batch_median == median([i \in DOMAIN deltas |-> Get(deltas[i])])
        IN  \A i \in DOMAIN feat.request :
                hours_since_prev(feat.request[i]) = None =>
                    feat.frames[i].hours = batch_median

\* C20: the columns of the frame handed to the scaler for a request that passed
\* the required-fields check are the fitted columns, in the fitted order and
\* number, whatever the order of the keys of the body and whatever other keys
\* it has.
C20_FittedOrder ==
    feat.site = "single" => feat.frames[1].columns = FittedOrder

\* The feature runs that called preprocess_transaction on a dict.
FeatureSites == {"single", "db_single", "batch"}

\* C21: when a categorical field of the transaction has no entry in the encoder
\* registry, preprocess_transaction returns no frame: no frame handed on holds
\* a categorical column that was left unencoded.
C21_UnencodedRefused ==
    feat.site \in FeatureSites =>
        \A i \in DOMAIN feat.frames : feat.frames[i].strings = {}

\* C22: for every parseable transaction timestamp IsNightTime is 1 at the hours
\* 22, 23 and 0..6 and 0 at the hours 7..21, and IsWeekend is 1 on Saturdays and
\* Sundays (the sixth and seventh day of a week that starts on Monday) and 0 on
\* the other days.
C22_TimeFlags ==
    feat.site \in FeatureSites =>
        \A i \in DOMAIN feat.frames :
            feat.request[i].date.ok =>
                LET at == feat.request[i].date.at
                    night == (at % 24) \in (0 .. 6) \cup {22, 23}
                    weekend == ((at \div 24) % 7) \in {5, 6}
                    cells == feat.frames[i].cells
                IN  /\ cells.IsNightTime = Some(IF night THEN 1 ELSE 0)
                    /\ cells.IsWeekend = Some(IF weekend THEN 1 ELSE 0)

\* A Saturday at 21:00 was preprocessed: weekend, not night.
C22_Witness ==
    /\ feat.site = "single"
    /\ feat.request[1].date = Ts(24 * 5 + 21)
    /\ feat.frames[1].cells.IsWeekend = Some(1)
    /\ feat.frames[1].cells.IsNightTime = Some(0)

\* C23: in a single-transaction call HoursSincePrevTransaction is the current
\* minus the previous timestamp, in hours, when both parse, and 168 when one of
\* them is missing or does not parse (the model counts in half hours).
C23_SingleHours ==
    feat.site \in {"single", "db_single"} =>
        LET row == feat.request[1]
        IN  feat.frames[1].hours =
                IF row.date.ok /\ row.prev.ok
                THEN 2 * (row.date.at - row.prev.at)
                ELSE 2 * 168

\* A transaction made 20 hours after the previous one was preprocessed alone.
C23_Witness ==
    /\ feat.site = "single"
    /\ feat.request[1].date = Ts(30) /\ feat.request[1].prev = Ts(10)
    /\ feat.frames[1].hours = 40

\* C24: the frame preprocess_transaction returns holds no null: with an
\* unparseable transaction timestamp Hour, DayOfWeek and Month are 0, a null
\* CustomerAge is 0, and the two raw timestamp columns are not in the frame.
C24_NoNull ==
    feat.site \in FeatureSites =>
        \A i \in DOMAIN feat.frames :
            LET cells == feat.frames[i].cells
                row == feat.request[i]
            IN  /\ \A col \in DOMAIN cells : cells[col] /= None
                /\ ~row.date.ok =>
                       /\ cells.Hour = Some(0)
                       /\ cells.DayOfWeek = Some(0)
                       /\ cells.Month = Some(0)
                /\ row.age = None => cells.CustomerAge = Some(0)
                /\ Range(feat.frames[i].columns) \cap
                       {"TransactionDate", "PreviousTransactionDate"} = {}

\* A transaction with an unparseable timestamp and a null CustomerAge was
\* preprocessed.
C24_Witness ==
    /\ feat.site = "single"
    /\ ~feat.request[1].date.ok /\ feat.request[1].age = None
    /\ feat.frames[1].cells.Month = Some(0)
    /\ feat.frames[1].cells.CustomerAge = Some(0)

\* C28: with an unparseable transaction timestamp the frame has IsNightTime 0,
\* IsWeekend 0, Hour 0 and DayOfWeek 0, and no parseable timestamp gives Hour 0
\* with IsNightTime 0.
C28_UnparseableFlags ==
    feat.site \in FeatureSites =>
        \A i \in DOMAIN feat.frames :
            LET cells == feat.frames[i].cells
            IN  IF feat.request[i].date.ok
                THEN ~(cells.Hour = Some(0) /\ cells.IsNightTime = Some(0))
                ELSE /\ cells.IsNightTime = Some(0) /\ cells.IsWeekend = Some(0)
                     /\ cells.Hour = Some(0) /\ cells.DayOfWeek = Some(0)

\* app_with_database.py preprocessed a transaction with an unparseable
\* timestamp.
C28_Witness ==
    /\ feat.site = "db_single"
    /\ ~feat.request[1].date.ok
    /\ feat.frames[1].cells.Hour = Some(0)
    /\ feat.frames[1].cells.IsNightTime = Some(0)

\* The number of times a step was entered by the handler of the last request.
Entered(step) == Cardinality({i \in DOMAIN trace : trace[i] = step})

\* C26: every alert in the collection has recommended_action BLOCK and
\* risk_level High; a request whose action is BLOCK and whose transaction write
\* succeeded attempts exactly one alert write; a request whose action is REVIEW
\* or ALLOW attempts none.
C26_AlertIffBlock ==
    /\ \A i \in DOMAIN alerts :
          /\ alerts[i].recommended_action = "BLOCK"
          /\ alerts[i].risk_level = "High"
    /\ SingleOK =>
          /\ (/\ resp.action = Some("BLOCK")
              /\ Entered("tx_write") = 1
              /\ Entered("tx_write_raised") = 0) => Entered("alert_write") = 1
          /\ resp.action \in {Some("REVIEW"), Some("ALLOW")} =>
                 Entered("alert_write") = 0

\* A fraud label at probability 0.7 exactly was answered REVIEW with its
\* transaction saved, while the collection holds the alert of an earlier BLOCK.
C26_Witness ==
    /\ SingleOK
    /\ resp.action = Some("REVIEW")
    /\ ReqBody.prediction = 1 /\ 10 * ReqBody.p = 7 * PScale
    /\ IsSome(resp.transaction_id)
    /\ Len(alerts) = 1

\* The summary of the batch response being returned.
Summary == Get(resp.summary)

\* C27: in every 200 response of predict_batch total_transactions is the number
\* of result entries (one per item sent), processed + failed is
\* total_transactions, fraud_detected + legitimate is processed, the entries
\* are numbered 1..n in the order of the input, and fraud_percentage is 0 when
\* no item was processed.
C27_BatchSummary ==
    (resp.endpoint = "batch" /\ resp.code = 200) =>
        /\ Summary.total_transactions = Len(resp.results)
        /\ Len(resp.results) = Len(ReqBody.items)
        /\ Summary.processed + Summary.failed = Summary.total_transactions
        /\ Summary.processed >= 0 /\ Summary.failed >= 0
        /\ Summary.fraud_detected + Summary.legitimate = Summary.processed
        /\ Summary.fraud_detected >= 0 /\ Summary.legitimate >= 0
        /\ \A i \in DOMAIN resp.results : resp.results[i].transaction_id = i
        /\ (\A i \in DOMAIN resp.results : ~resp.results[i].ok) =>
               Summary.fraud_percentage = 0

\* A batch of three was answered: one fraud, one legitimate, one failed item.
C27_Witness ==
    /\ resp.endpoint = "batch" /\ resp.code = 200
    /\ Summary.total_transactions = 3
    /\ Summary.fraud_detected = 1 /\ Summary.legitimate = 1 /\ Summary.failed = 1

\* The steps that touch the store.
StoreSteps == {"tx_write", "alert_write", "query"}

C30_TrendsPartition ==
    (resp.endpoint = "get_fraud_trends" /\ resp.code = 200) =>
        \A i \in DOMAIN resp.results :
            LET e == resp.results[i]
                of_day == {j \in DOMAIN transactions :
                              transactions[j].created_at = e.date}
            IN  /\ e.normal >= 0 /\ e.fraudulent >= 0 /\ e.under_review >= 0
                /\ e.normal + e.fraudulent + e.under_review = e.total
                /\ e.total = Cardinality(of_day)

\* What predict_single answers a body when no other request is being handled.
Alone(body) == App_handle(body, None, None).resp

\* C25: requests handled on several threads, their steps interleaved in any
\* order, never change the classifier, the scaler or the encoder registry; each
\* gets the status code and the score it gets alone; the transaction record a
\* request wrote is made of its own data and the alert it wrote names its own
\* transaction id and its own probability.
C25_Isolation ==
    /\ [][pc = "serving" => UNCHANGED <<model, scaler, le_dict>>]_vars
    /\ [](\A t \in Threads :
            LET l == inflight[t]
                body == Get(l.body)
            IN  /\ l.at = "done" =>
                      /\ l.resp.code = Alone(body).code
                      /\ l.resp.code = 200 => Score(l.resp) = Score(Alone(body))
                /\ IsSome(l.transaction_id) =>
                      /\ Get(l.transaction_id) \in DOMAIN transactions
                      /\ transactions[Get(l.transaction_id)] =
                             FraudTransaction_create(
                                 Get(l.transaction_id), body,
                                 App_prediction_data(body.prediction, body.p))
                      /\ \A u \in Threads \ {t} :
                             inflight[u].transaction_id /= l.transaction_id
                /\ IsSome(l.alert_id) =>
                      /\ alerts[Get(l.alert_id)].transaction_id =
                             Get(l.transaction_id)
                      /\ alerts[Get(l.alert_id)].fraud_probability = body.p)
    /\ [](\A i \in DOMAIN alerts :
            /\ alerts[i].transaction_id \in DOMAIN transactions
            /\ transactions[alerts[i].transaction_id].fraud_probability =
                   Round2Pct(alerts[i].fraud_probability)
            /\ \A j \in DOMAIN alerts :
                   alerts[j].transaction_id = alerts[i].transaction_id => i = j)

\* Two requests were interleaved: the first wrote its transaction, the second
\* wrote its transaction and its alert, then the first wrote its alert.
C25_Witness ==
    /\ Len(alerts) = 2
    /\ alerts[1].transaction_id = 2 /\ alerts[2].transaction_id = 1
    /\ \E t \in Threads :
          /\ inflight[t].at = "done"
          /\ inflight[t].transaction_id = Some(1)
          /\ inflight[t].alert_id = Some(2)

====
